---------------------------- MODULE Spec2Model ----------------------------
(***************************************************************************)
(* The hash-linked ledger of src/src/scrollsoul/blockchain/__init__.py:    *)
(* Block (content hash, proof-of-work mining) and BlockchainConnector      *)
(* (chain, pending pool, add_block, add_transaction,                       *)
(* mine_pending_transactions, validate_chain).                             *)
(*                                                                         *)
(* Python index i of self.chain is position i+1 of the sequence chain.     *)
(* A Python list is an object: the pool list is referenced from the dict   *)
(* built in mine_pending_transactions until the pool attribute is rebound  *)
(* to a fresh list, so lists live in a heap (lists) and are named by       *)
(* reference (pending, data.txs).                                          *)
(*                                                                         *)
(* SHA-256 is abstracted by a deterministic polynomial digest over the     *)
(* serialised block, written as DigestLen digits of radix HashBase.        *)
(***************************************************************************)
EXTENDS Integers, Sequences, FiniteSets, TLC

VARIABLES chain,       \* self.chain: sequence of Block records
          lists,       \* heap of Python list objects: reference -> contents
          pending,     \* self.pending_transactions: a reference into lists
          difficulty,  \* self.difficulty
          now,         \* the wall clock read by datetime.now()
          ret,         \* what the last completed call returned
          submitted,   \* history: every record passed to add_transaction
          sealedUpTo,  \* history: Len(submitted) when the last block was sealed
          tampered,    \* history: fields of blocks overwritten from outside
          pc,          \* per thread: position inside add_block / seal
          loc,         \* per thread: locals of the call in progress
          start,       \* history: the block as it was when mine_block was entered
          registry     \* NFTManager: nfts (token ids) and total_minted

vars == <<chain, lists, pending, difficulty, now, ret, submitted, sealedUpTo,
          tampered, pc, loc, start, registry>>

---------------------------------------------------------------------------
(* Bounds of the model *)

MaxChain == 3
MaxSubmits == 2
HashBase == 4
DigestLen == 4
NumThreads == 2

(* self.difficulty = 2 *)
Difficulty == 2

(* Opaque transaction records and caller-supplied payloads *)
Records == {1, 2}
RawPayloads == {1, 2}

(* Values datetime.now() can return, in order *)
Times == {0, 1}
Threads == 1..NumThreads

---------------------------------------------------------------------------
(* Payloads *)

(* "Genesis Block - ScrollVerse Eternal" *)
GenesisMarker == [kind |-> "str", str |-> 0, keys |-> <<>>, txs |-> 0, count |-> 0]

RawPayload(n) == [kind |-> "str", str |-> n, keys |-> <<>>, txs |-> 0, count |-> 0]

(* {"transactions": self.pending_transactions, "count": len(...)}: the   *)
(* dict holds the list by reference and the count by value.              *)
BatchPayload(ref, n) ==
    [kind |-> "dict", str |-> 0, keys |-> <<"transactions", "count">>,
     txs |-> ref, count |-> n]

RECURSIVE StrList(_)
StrList(l) == IF l = <<>> THEN <<>> ELSE <<10 + Head(l)>> \o StrList(Tail(l))

StrItem(d, key, heap) ==
    IF key = "transactions" THEN <<2>> \o StrList(heap[d.txs]) \o <<3>>
    ELSE <<4, 10 + d.count>>

RECURSIVE StrItems(_, _, _)
StrItems(d, keys, heap) ==
    IF keys = <<>> THEN <<>>
    ELSE StrItem(d, Head(keys), heap) \o StrItems(d, Tail(keys), heap)

(* str(self.data): a string prints as itself, a dict prints its items in  *)
(* insertion order, a list its current elements.                          *)
Str(d, heap) ==
    IF d.kind = "str" THEN <<5, 10 + d.str>>
    ELSE <<1>> \o StrItems(d, d.keys, heap) \o <<6>>

---------------------------------------------------------------------------
(* Block *)

HashMod == HashBase ^ DigestLen

(* json.dumps(..., sort_keys=True): data, index, nonce, previous_hash,    *)
(* timestamp.                                                             *)
Serialize(b, heap) ==
    Str(b.data, heap) \o <<b.index, b.nonce>> \o b.previous_hash \o <<b.timestamp>>

RECURSIVE Fold(_, _)
Fold(h, s) == IF s = <<>> THEN h ELSE Fold((h * 7 + Head(s) + 1) % HashMod, Tail(s))

(* hexdigest(): the digest as a fixed-length digit string *)
HexDigest(h) == [i \in 1..DigestLen |-> (h \div (HashBase ^ (i - 1))) % HashBase]

calculate_hash(b, heap) == HexDigest(Fold(1, Serialize(b, heap)))

Block(index, data, previous_hash, ts, heap) ==
    LET b == [index |-> index, timestamp |-> ts, data |-> data,
              previous_hash |-> previous_hash, nonce |-> 0, hash |-> <<>>]
    IN  [b EXCEPT !.hash = calculate_hash(b, heap)]

Min(a, b) == IF a < b THEN a ELSE b

(* s[:d]: the first d characters, or all but the last -d for d < 0 *)
Prefix(s, d) == IF d >= 0 THEN SubSeq(s, 1, Min(d, Len(s))) ELSE SubSeq(s, 1, Len(s) + d)

(* "0" * d *)
Zeros(d) == [i \in 1..d |-> 0]

MineIter(b, heap) ==
    LET b1 == [b EXCEPT !.nonce = @ + 1]
    IN  [b1 EXCEPT !.hash = calculate_hash(b1, heap)]

RECURSIVE mine_block(_, _, _)
mine_block(b, d, heap) ==
    IF Prefix(b.hash, d) # Zeros(d) THEN mine_block(MineIter(b, heap), d, heap)
    ELSE b

---------------------------------------------------------------------------
(* BlockchainConnector *)

Last(s) == s[Len(s)]

get_latest_block(ch) == Last(ch)

(* a genesis block numbered 1 instead of 0 *)
create_genesis_block_from_one(ts, d, heap) ==
    <<mine_block(Block(1, GenesisMarker, <<0>>, ts, heap), d, heap)>>

create_genesis_block(ts, d, heap) ==
    <<mine_block(Block(0, GenesisMarker, <<0>>, ts, heap), d, heap)>>

(* The dict get_chain_info returns; NoInfo where a call returns none *)
NoInfo == [length |-> 0, valid |-> FALSE, difficulty |-> 0, pending_transactions |-> 0,
           latest_hash |-> <<>>]

(* The dict immortalize_on_chain returns; NoReceipt where another call *)
(* returns                                                             *)
NoReceipt == [immortalized |-> FALSE, block_index |-> 0, block_hash |-> <<>>,
              transactions |-> 0]

(* NFTManager.__init__: self.nfts = {}, self.total_minted = 0 *)
NoRegistry == [nfts |-> {}, total_minted |-> 0]

NoReturn ==
    [op |-> "init", none |-> TRUE, pos |-> 0, bool |-> FALSE, arg |-> 0, info |-> NoInfo,
     receipt |-> NoReceipt]

Idle == [data |-> GenesisMarker, ref |-> 0, prevpos |-> 0, seal |-> FALSE, pos |-> 0,
         blk |-> Block(0, GenesisMarker, <<>>, 0, <<>>)]

Init ==
    /\ lists = << <<>> >>
    /\ pending = 1
    /\ difficulty = Difficulty
    /\ now \in Times
    /\ chain = create_genesis_block(now, difficulty, lists)
    /\ ret = NoReturn
    /\ submitted = <<>>
    /\ sealedUpTo = 0
    /\ tampered = <<>>
    /\ pc = [t \in Threads |-> "idle"]
    /\ loc = [t \in Threads |-> Idle]
    /\ start = Idle.blk
    /\ registry = NoRegistry

AllIdle == \A t \in Threads : pc[t] = "idle"

(* add_block linking every block to the first one instead of the latest *)
add_block_to_first(ch, data, ts, d, heap) ==
    LET previous_block == ch[1]
        new_block == Block(Len(ch), data, previous_block.hash, ts, heap)
    IN  Append(ch, mine_block(new_block, d, heap))

(* add_block appending the block without mining it *)
add_block_unmined(ch, data, ts, d, heap) ==
    LET previous_block == get_latest_block(ch)
        new_block == Block(Len(ch), data, previous_block.hash, ts, heap)
    IN  Append(ch, new_block)

(* add_block putting the new block in the place of the last one *)
add_block_to_overwrite(ch, data, ts, d, heap) ==
    LET previous_block == get_latest_block(ch)
        new_block == Block(Len(ch), data, previous_block.hash, ts, heap)
    IN  [ch EXCEPT ![Len(ch)] = mine_block(new_block, d, heap)]

(* add_block numbering the new block from 1 *)
add_block_to_one_based(ch, data, ts, d, heap) ==
    LET previous_block == get_latest_block(ch)
        new_block == Block(Len(ch) + 1, data, previous_block.hash, ts, heap)
    IN  Append(ch, mine_block(new_block, d, heap))

add_block_to(ch, data, ts, d, heap) ==
    LET previous_block == get_latest_block(ch)
        new_block == Block(Len(ch), data, previous_block.hash, ts, heap)
    IN  Append(ch, mine_block(new_block, d, heap))

(* add_block(data) that also rebinds the pool to a fresh empty list *)
add_block_draining(p) ==
    /\ AllIdle
    /\ tampered = <<>>
    /\ Len(chain) < MaxChain
    /\ \E ts \in {x \in Times : x >= now} :
        /\ now' = ts
        /\ chain' = add_block_to(chain, RawPayload(p), ts, difficulty, lists)
    /\ lists' = Append(lists, <<>>)
    /\ pending' = Len(lists) + 1
    /\ ret' = [op |-> "add_block", none |-> FALSE, pos |-> Len(chain'), bool |-> FALSE,
               arg |-> p, info |-> NoInfo, receipt |-> NoReceipt]
    /\ UNCHANGED <<difficulty, submitted, sealedUpTo, tampered, pc, loc, start, registry>>

(* add_block(data), called on its own *)
add_block(p) ==
    /\ AllIdle
    /\ tampered = <<>>
    /\ Len(chain) < MaxChain
    /\ \E ts \in {x \in Times : x >= now} :
        /\ now' = ts
        /\ chain' = add_block_to(chain, RawPayload(p), ts, difficulty, lists)
    /\ ret' = [op |-> "add_block", none |-> FALSE, pos |-> Len(chain'), bool |-> FALSE,
               arg |-> p, info |-> NoInfo, receipt |-> NoReceipt]
    /\ UNCHANGED <<lists, pending, difficulty, submitted, sealedUpTo, tampered, pc, loc,
                   start, registry>>

(* add_transaction binding the pool to a new list holding the record *)
add_transaction_replacing(r) ==
    /\ tampered = <<>>
    /\ Len(submitted) < MaxSubmits
    /\ lists' = [lists EXCEPT ![pending] = <<r>>]
    /\ submitted' = Append(submitted, r)
    /\ ret' = [op |-> "add_transaction", none |-> FALSE, pos |-> 0, bool |-> TRUE,
               arg |-> r, info |-> NoInfo, receipt |-> NoReceipt]
    /\ UNCHANGED <<chain, pending, difficulty, now, sealedUpTo, tampered, pc, loc, start,
                   registry>>

(* add_transaction putting the record at the head of the pool *)
add_transaction_front(r) ==
    /\ tampered = <<>>
    /\ Len(submitted) < MaxSubmits
    /\ lists' = [lists EXCEPT ![pending] = <<r>> \o @]
    /\ submitted' = Append(submitted, r)
    /\ ret' = [op |-> "add_transaction", none |-> FALSE, pos |-> 0, bool |-> TRUE,
               arg |-> r, info |-> NoInfo, receipt |-> NoReceipt]
    /\ UNCHANGED <<chain, pending, difficulty, now, sealedUpTo, tampered, pc, loc, start,
                   registry>>

add_transaction(r) ==
    /\ tampered = <<>>
    /\ Len(submitted) < MaxSubmits
    /\ lists' = [lists EXCEPT ![pending] = Append(@, r)]
    /\ submitted' = Append(submitted, r)
    /\ ret' = [op |-> "add_transaction", none |-> FALSE, pos |-> 0, bool |-> TRUE,
               arg |-> r, info |-> NoInfo, receipt |-> NoReceipt]
    /\ UNCHANGED <<chain, pending, difficulty, now, sealedUpTo, tampered, pc, loc, start,
                   registry>>

SealReturn(none, pos) ==
    [op |-> "mine_pending_transactions", none |-> none, pos |-> pos, bool |-> FALSE,
     arg |-> 0, info |-> NoInfo, receipt |-> NoReceipt]

(* mine_pending_transactions leaving the pool as it was *)
mine_pending_keep_pool ==
    /\ AllIdle
    /\ tampered = <<>>
    /\ IF lists[pending] = <<>>
       THEN /\ ret' = SealReturn(TRUE, 0)
            /\ UNCHANGED <<chain, now, sealedUpTo>>
       ELSE /\ Len(chain) < MaxChain
            /\ \E ts \in {x \in Times : x >= now} :
                /\ now' = ts
                /\ chain' = add_block_to(chain, BatchPayload(pending, Len(lists[pending])),
                                         ts, difficulty, lists)
            /\ sealedUpTo' = Len(submitted)
            /\ ret' = SealReturn(FALSE, Len(chain'))
    /\ UNCHANGED <<lists, pending, difficulty, submitted, tampered, pc, loc, start,
                   registry>>

(* mine_pending_transactions emptying the pool list in place (list.clear()) *)
mine_pending_clear_in_place ==
    /\ AllIdle
    /\ tampered = <<>>
    /\ IF lists[pending] = <<>>
       THEN /\ ret' = SealReturn(TRUE, 0)
            /\ UNCHANGED <<chain, lists, now, sealedUpTo>>
       ELSE /\ Len(chain) < MaxChain
            /\ \E ts \in {x \in Times : x >= now} :
                /\ now' = ts
                /\ chain' = add_block_to(chain, BatchPayload(pending, Len(lists[pending])),
                                         ts, difficulty, lists)
            /\ lists' = [lists EXCEPT ![pending] = <<>>]
            /\ sealedUpTo' = Len(submitted)
            /\ ret' = SealReturn(FALSE, Len(chain'))
    /\ UNCHANGED <<pending, difficulty, submitted, tampered, pc, loc, start, registry>>

(* mine_pending_transactions without the empty-pool check *)
mine_pending_no_check ==
    /\ AllIdle
    /\ tampered = <<>>
    /\ Len(chain) < MaxChain
    /\ \E ts \in {x \in Times : x >= now} :
        /\ now' = ts
        /\ chain' = add_block_to(chain, BatchPayload(pending, Len(lists[pending])),
                                 ts, difficulty, lists)
    /\ lists' = Append(lists, <<>>)
    /\ pending' = Len(lists) + 1
    /\ sealedUpTo' = Len(submitted)
    /\ ret' = SealReturn(FALSE, Len(chain'))
    /\ UNCHANGED <<difficulty, submitted, tampered, pc, loc, start, registry>>

mine_pending_transactions ==
    /\ AllIdle
    /\ tampered = <<>>
    /\ IF lists[pending] = <<>>
       THEN /\ ret' = SealReturn(TRUE, 0)
            /\ UNCHANGED <<chain, lists, pending, now, sealedUpTo>>
       ELSE /\ Len(chain) < MaxChain
            /\ \E ts \in {x \in Times : x >= now} :
                /\ now' = ts
                /\ chain' = add_block_to(chain, BatchPayload(pending, Len(lists[pending])), ts,
                                         difficulty, lists)
            /\ lists' = Append(lists, <<>>)
            /\ pending' = Len(lists) + 1
            /\ sealedUpTo' = Len(submitted)
            /\ ret' = SealReturn(FALSE, Len(chain'))
    /\ UNCHANGED <<difficulty, submitted, tampered, pc, loc, start, registry>>

RECURSIVE validate_from(_, _, _)
validate_from(ch, i, heap) ==
    IF i > Len(ch) THEN TRUE
    ELSE LET current == ch[i]
             previous == ch[i - 1]
         IN  IF current.hash # calculate_hash(current, heap) THEN FALSE
             ELSE IF current.previous_hash # previous.hash THEN FALSE
             ELSE validate_from(ch, i + 1, heap)

RECURSIVE links_from(_, _)
links_from(ch, i) ==
    IF i > Len(ch) THEN TRUE
    ELSE IF ch[i].previous_hash # ch[i - 1].hash THEN FALSE
    ELSE links_from(ch, i + 1)

(* validate_chain without the recomputation of each block's hash *)
validate_chain_links_only(ch, heap) == links_from(ch, 2)

(* for i in range(1, len(self.chain)) *)
validate_chain(ch, heap) == validate_from(ch, 2, heap)

(* validate_chain storing each recomputed hash back into its block *)
validate_rehashing ==
    /\ AllIdle
    /\ ret' = [op |-> "validate_chain", none |-> FALSE, pos |-> 0,
               bool |-> validate_chain(chain, lists), arg |-> 0, info |-> NoInfo,
               receipt |-> NoReceipt]
    /\ chain' = [i \in 1..Len(chain) |->
                    IF i = 1 THEN chain[i]
                    ELSE [chain[i] EXCEPT !.hash = calculate_hash(chain[i], lists)]]
    /\ UNCHANGED <<lists, pending, difficulty, now, submitted, sealedUpTo,
                   tampered, pc, loc, start, registry>>

validate ==
    /\ AllIdle
    /\ ret' = [op |-> "validate_chain", none |-> FALSE, pos |-> 0,
               bool |-> validate_chain(chain, lists), arg |-> 0, info |-> NoInfo,
               receipt |-> NoReceipt]
    /\ UNCHANGED <<chain, lists, pending, difficulty, now, submitted, sealedUpTo,
                   tampered, pc, loc, start, registry>>

latest ==
    /\ AllIdle
    /\ tampered = <<>>
    /\ ret' = [op |-> "get_latest_block", none |-> FALSE, pos |-> Len(chain),
               bool |-> FALSE, arg |-> 0, info |-> NoInfo, receipt |-> NoReceipt]
    /\ UNCHANGED <<chain, lists, pending, difficulty, now, submitted, sealedUpTo,
                   tampered, pc, loc, start, registry>>

ChainInfo(valid) ==
    [length |-> Len(chain), valid |-> valid, difficulty |-> difficulty,
     pending_transactions |-> Len(lists[pending]),
     latest_hash |-> get_latest_block(chain).hash]

(* get_chain_info reporting the chain as valid without scanning it *)
get_chain_info_unchecked ==
    /\ AllIdle
    /\ ret' = [op |-> "get_chain_info", none |-> FALSE, pos |-> 0, bool |-> FALSE,
               arg |-> 0, info |-> ChainInfo(TRUE),
               receipt |-> NoReceipt]
    /\ UNCHANGED <<chain, lists, pending, difficulty, now, submitted, sealedUpTo,
                   tampered, pc, loc, start, registry>>

get_chain_info ==
    /\ AllIdle
    /\ ret' = [op |-> "get_chain_info", none |-> FALSE, pos |-> 0, bool |-> FALSE,
               arg |-> 0, info |-> ChainInfo(validate_chain(chain, lists)),
               receipt |-> NoReceipt]
    /\ UNCHANGED <<chain, lists, pending, difficulty, now, submitted, sealedUpTo,
                   tampered, pc, loc, start, registry>>

Next ==
    \/ \E r \in Records : add_transaction(r)
    \/ mine_pending_transactions
    \/ \E p \in RawPayloads : add_block(p)
    \/ validate
    \/ latest
    \/ get_chain_info

Spec == Init /\ [][Next]_vars

---------------------------------------------------------------------------
(* NFTManager over a ledger it shares with direct callers *)

(* mint_nft: a fresh token id, recorded in nfts, then one record for the *)
(* ledger's pool.                                                        *)
mint_nft(r) ==
    /\ tampered = <<>>
    /\ Len(submitted) < MaxSubmits
    /\ registry' = [nfts |-> registry.nfts \cup {registry.total_minted + 1},
                    total_minted |-> registry.total_minted + 1]
    /\ lists' = [lists EXCEPT ![pending] = Append(@, r)]
    /\ submitted' = Append(submitted, r)
    /\ ret' = [op |-> "mint_nft", none |-> FALSE, pos |-> 0, bool |-> FALSE,
               arg |-> r, info |-> NoInfo, receipt |-> NoReceipt]
    /\ UNCHANGED <<chain, pending, difficulty, now, sealedUpTo, tampered, pc, loc, start>>

ImmortalizeReturn(receipt) ==
    [op |-> "immortalize_on_chain", none |-> FALSE, pos |-> 0, bool |-> FALSE,
     arg |-> 0, info |-> NoInfo, receipt |-> receipt]

(* immortalize_on_chain counting the ledger's pool instead of the block's *)
(* transactions                                                           *)
immortalize_on_chain_counting_pool ==
    /\ AllIdle
    /\ tampered = <<>>
    /\ IF lists[pending] = <<>>
       THEN /\ ret' = ImmortalizeReturn(NoReceipt)
            /\ UNCHANGED <<chain, lists, pending, now, sealedUpTo>>
       ELSE /\ Len(chain) < MaxChain
            /\ \E ts \in {x \in Times : x >= now} :
                /\ now' = ts
                /\ chain' = add_block_to(chain, BatchPayload(pending, Len(lists[pending])),
                                         ts, difficulty, lists)
            /\ lists' = Append(lists, <<>>)
            /\ pending' = Len(lists) + 1
            /\ sealedUpTo' = Len(submitted)
            /\ ret' = ImmortalizeReturn(
                         [immortalized |-> TRUE,
                          block_index |-> Last(chain').index,
                          block_hash |-> Last(chain').hash,
                          transactions |-> Len(lists'[pending'])])
    /\ UNCHANGED <<difficulty, submitted, tampered, pc, loc, start, registry>>

(* block = self.blockchain.mine_pending_transactions(); the receipt is   *)
(* read from the returned block after the pool was rebound.              *)
immortalize_on_chain ==
    /\ AllIdle
    /\ tampered = <<>>
    /\ IF lists[pending] = <<>>
       THEN /\ ret' = ImmortalizeReturn(NoReceipt)
            /\ UNCHANGED <<chain, lists, pending, now, sealedUpTo>>
       ELSE /\ Len(chain) < MaxChain
            /\ \E ts \in {x \in Times : x >= now} :
                /\ now' = ts
                /\ chain' = add_block_to(chain, BatchPayload(pending, Len(lists[pending])),
                                         ts, difficulty, lists)
            /\ lists' = Append(lists, <<>>)
            /\ pending' = Len(lists) + 1
            /\ sealedUpTo' = Len(submitted)
            /\ ret' = ImmortalizeReturn(
                         [immortalized |-> TRUE,
                          block_index |-> Last(chain').index,
                          block_hash |-> Last(chain').hash,
                          transactions |-> Len(lists'[Last(chain').data.txs])])
    /\ UNCHANGED <<difficulty, submitted, tampered, pc, loc, start, registry>>

NextRegistry ==
    \/ \E r \in Records : mint_nft(r)
    \/ \E r \in Records : add_transaction(r)
    \/ \E p \in RawPayloads : add_block(p)
    \/ immortalize_on_chain

RegistrySpec == Init /\ [][NextRegistry]_vars

---------------------------------------------------------------------------
(* External mutation of a sealed block: Block's attributes are plain     *)
(* public attributes, so any holder of the ledger can overwrite one      *)
(* without re-mining.  The model follows one such mutation of one field  *)
(* and the validate_chain calls after it: the guard tampered = <<>> of   *)
(* add_block, add_transaction and mine_pending_transactions ends the     *)
(* building of the chain at the mutation.                                *)

CommittedFields == {"index", "timestamp", "data", "previous_hash", "nonce"}

TamperValues(k, f) ==
    CASE f = "index" -> {chain[k].index + 1}
      [] f = "timestamp" -> Times
      [] f = "nonce" -> {chain[k].nonce + 1}
      [] f = "data" -> {GenesisMarker, RawPayload(1)}
      [] OTHER -> {<<0>>, calculate_hash(chain[k], lists), get_latest_block(chain).hash}

Tamper(k, f) ==
    /\ AllIdle
    /\ tampered = <<>>
    /\ \E v \in TamperValues(k, f) :
        /\ v # chain[k][f]
        /\ chain' = [chain EXCEPT ![k][f] = v]
    /\ tampered' = Append(tampered, [k |-> k, field |-> f])
    /\ ret' = [op |-> "tamper", none |-> TRUE, pos |-> k, bool |-> FALSE, arg |-> 0,
               info |-> NoInfo, receipt |-> NoReceipt]
    /\ UNCHANGED <<lists, pending, difficulty, now, submitted, sealedUpTo, pc, loc,
                   start, registry>>

NextTamper ==
    \/ Next
    \/ \E k \in 1..Len(chain), f \in CommittedFields \cup {"hash"} : Tamper(k, f)

TamperSpec == Init /\ [][NextTamper]_vars

---------------------------------------------------------------------------
(* The same calls made from several threads.  The module takes no lock,  *)
(* so a call is a sequence of steps another thread can run between: each *)
(* step below is one read or write of shared state (an attribute load, a *)
(* list append, one iteration of the mining loop).                       *)

InFlight == Cardinality({t \in Threads : pc[t] # "idle"})

Goto(t, label) == pc' = [pc EXCEPT ![t] = label]

(* if not self.pending_transactions: return None *)
seal_check(t) ==
    /\ pc[t] = "idle"
    /\ IF lists[pending] = <<>>
       THEN /\ ret' = SealReturn(TRUE, 0)
            /\ UNCHANGED <<pc, loc>>
       ELSE /\ Len(chain) + InFlight < MaxChain
            /\ Goto(t, "ref")
            /\ loc' = [loc EXCEPT ![t] = [Idle EXCEPT !.seal = TRUE]]
            /\ UNCHANGED ret
    /\ UNCHANGED <<chain, lists, pending, difficulty, now, submitted, sealedUpTo, tampered, start,
                   registry>>

(* "transactions": self.pending_transactions *)
seal_ref(t) ==
    /\ pc[t] = "ref"
    /\ loc' = [loc EXCEPT ![t].ref = pending]
    /\ Goto(t, "count")
    /\ UNCHANGED <<chain, lists, pending, difficulty, now, ret, submitted, sealedUpTo,
                   tampered, start, registry>>

(* "count": len(self.pending_transactions) *)
seal_count(t) ==
    /\ pc[t] = "count"
    /\ loc' = [loc EXCEPT ![t].data = BatchPayload(loc[t].ref, Len(lists[pending]))]
    /\ Goto(t, "read")
    /\ UNCHANGED <<chain, lists, pending, difficulty, now, ret, submitted, sealedUpTo,
                   tampered, start, registry>>

(* add_block(data) entered directly *)
raw_begin(t, p) ==
    /\ pc[t] = "idle"
    /\ Len(chain) + InFlight < MaxChain
    /\ loc' = [loc EXCEPT ![t] = [Idle EXCEPT !.data = RawPayload(p)]]
    /\ Goto(t, "read")
    /\ UNCHANGED <<chain, lists, pending, difficulty, now, ret, submitted, sealedUpTo,
                   tampered, start, registry>>

(* previous_block = self.get_latest_block() *)
add_read(t) ==
    /\ pc[t] = "read"
    /\ loc' = [loc EXCEPT ![t].prevpos = Len(chain)]
    /\ Goto(t, "create")
    /\ UNCHANGED <<chain, lists, pending, difficulty, now, ret, submitted, sealedUpTo,
                   tampered, start, registry>>

(* new_block = Block(len(self.chain), data, previous_block.hash) *)
add_create(t) ==
    /\ pc[t] = "create"
    /\ \E ts \in {x \in Times : x >= now} :
        /\ now' = ts
        /\ loc' = [loc EXCEPT ![t].blk =
                      Block(Len(chain), loc[t].data, chain[loc[t].prevpos].hash, ts, lists)]
    /\ Goto(t, "mine")
    /\ UNCHANGED <<chain, lists, pending, difficulty, ret, submitted, sealedUpTo, tampered, start,
                   registry>>

(* The nonce is an unbounded int; the model follows a search up to      *)
(* MaxNonce, past every nonce a search that can succeed needs.           *)
MaxNonce == HashMod + HashBase

(* mine_block with the nonce kept in one counter shared by all blocks *)
mine_step_shared_nonce(t) ==
    /\ pc[t] = "mine"
    /\ IF Prefix(loc[t].blk.hash, difficulty) # Zeros(difficulty)
       THEN /\ loc[t].blk.nonce < MaxNonce
            /\ LET shared == CHOOSE n \in {loc[u].blk.nonce : u \in Threads} :
                                \A u \in Threads : loc[u].blk.nonce <= n
               IN  loc' = [loc EXCEPT ![t].blk = MineIter([@ EXCEPT !.nonce = shared], lists)]
            /\ UNCHANGED pc
       ELSE /\ Goto(t, "append")
            /\ UNCHANGED loc
    /\ UNCHANGED <<chain, lists, pending, difficulty, now, ret, submitted, sealedUpTo,
                   tampered, start, registry>>

(* mine_block rehashing before it raises the nonce *)
mine_step_hash_first(t) ==
    /\ pc[t] = "mine"
    /\ IF Prefix(loc[t].blk.hash, difficulty) # Zeros(difficulty)
       THEN /\ loc[t].blk.nonce < MaxNonce
            /\ loc' = [loc EXCEPT ![t].blk =
                          [loc[t].blk EXCEPT !.hash = calculate_hash(loc[t].blk, lists),
                                             !.nonce = @ + 1]]
            /\ UNCHANGED pc
       ELSE /\ Goto(t, "append")
            /\ UNCHANGED loc
    /\ UNCHANGED <<chain, lists, pending, difficulty, now, ret, submitted, sealedUpTo,
                   tampered, start, registry>>

(* mine_block running the loop body once instead of until the target *)
mine_step_once(t) ==
    /\ pc[t] = "mine"
    /\ IF Prefix(loc[t].blk.hash, difficulty) # Zeros(difficulty)
       THEN /\ loc' = [loc EXCEPT ![t].blk = MineIter(@, lists)]
            /\ Goto(t, "append")
       ELSE /\ Goto(t, "append")
            /\ UNCHANGED loc
    /\ UNCHANGED <<chain, lists, pending, difficulty, now, ret, submitted, sealedUpTo,
                   tampered, start, registry>>

(* mine_block running the loop body before the first test *)
mine_step_do_while(t) ==
    /\ pc[t] = "mine"
    /\ IF loc[t].blk = start \/ Prefix(loc[t].blk.hash, difficulty) # Zeros(difficulty)
       THEN /\ loc[t].blk.nonce < MaxNonce
            /\ loc' = [loc EXCEPT ![t].blk = MineIter(@, lists)]
            /\ UNCHANGED pc
       ELSE /\ Goto(t, "append")
            /\ UNCHANGED loc
    /\ UNCHANGED <<chain, lists, pending, difficulty, now, ret, submitted, sealedUpTo,
                   tampered, start, registry>>

(* while self.hash[:difficulty] != target: nonce += 1; rehash *)
mine_step(t) ==
    /\ pc[t] = "mine"
    /\ IF Prefix(loc[t].blk.hash, difficulty) # Zeros(difficulty)
       THEN /\ loc[t].blk.nonce < MaxNonce
            /\ loc' = [loc EXCEPT ![t].blk = MineIter(@, lists)]
            /\ UNCHANGED pc
       ELSE /\ Goto(t, "append")
            /\ UNCHANGED loc
    /\ UNCHANGED <<chain, lists, pending, difficulty, now, ret, submitted, sealedUpTo,
                   tampered, start, registry>>

(* self.chain.append(new_block); return new_block *)
add_append(t) ==
    /\ pc[t] = "append"
    /\ chain' = Append(chain, loc[t].blk)
    /\ IF loc[t].seal
       THEN /\ Goto(t, "clear")
            /\ loc' = [loc EXCEPT ![t].pos = Len(chain')]
            /\ UNCHANGED ret
       ELSE /\ Goto(t, "idle")
            /\ loc' = [loc EXCEPT ![t] = Idle]
            /\ ret' = [op |-> "add_block", none |-> FALSE, pos |-> Len(chain'),
                       bool |-> FALSE, arg |-> loc[t].data.str, info |-> NoInfo,
                       receipt |-> NoReceipt]
    /\ UNCHANGED <<lists, pending, difficulty, now, submitted, sealedUpTo, tampered, start,
                   registry>>

(* self.pending_transactions = []; return block *)
seal_clear(t) ==
    /\ pc[t] = "clear"
    /\ lists' = Append(lists, <<>>)
    /\ pending' = Len(lists) + 1
    /\ sealedUpTo' = Len(submitted)
    /\ ret' = SealReturn(FALSE, loc[t].pos)
    /\ Goto(t, "idle")
    /\ loc' = [loc EXCEPT ![t] = Idle]
    /\ UNCHANGED <<chain, difficulty, now, submitted, tampered, start, registry>>

SealSteps(t) ==
    \/ seal_check(t)
    \/ seal_ref(t)
    \/ seal_count(t)
    \/ add_read(t)
    \/ add_create(t)
    \/ mine_step(t)
    \/ add_append(t)
    \/ seal_clear(t)

(* One caller submits while another seals. *)
NextRace ==
    \/ \E r \in Records : add_transaction(r)
    \/ SealSteps(NumThreads)

RaceSpec == Init /\ [][NextRace]_vars

(* Every thread may submit, seal or append directly. *)
NextConc ==
    \E t \in Threads :
        \/ \E r \in Records : pc[t] = "idle" /\ add_transaction(r)
        \/ \E p \in RawPayloads : raw_begin(t, p)
        \/ SealSteps(t)

ConcSpec == Init /\ [][NextConc]_vars

---------------------------------------------------------------------------
(* Block.mine_block(difficulty) called on its own.  mine_block is a      *)
(* public method taking any int, and BlockchainConnector.difficulty, the *)
(* value add_block passes to it, is a plain attribute: here difficulty   *)
(* is the argument of the one call followed, on a block that is fresh or *)
(* was mined before at a lower difficulty.  The thread running the loop  *)
(* keeps running, hence the fairness.                                    *)

MineDifficulties == (0 - 1)..DigestLen

MineBlocks ==
    {mine_block(Block(1, RawPayload(p), <<0>>, ts, << <<>> >>), d0, << <<>> >>) :
        p \in RawPayloads, ts \in Times, d0 \in {0, 1}}

InitMine ==
    /\ lists = << <<>> >>
    /\ pending = 1
    /\ difficulty \in MineDifficulties
    /\ chain = <<>>
    /\ ret = NoReturn
    /\ submitted = <<>>
    /\ sealedUpTo = 0
    /\ tampered = <<>>
    /\ pc = [t \in Threads |-> IF t = 1 THEN "mine" ELSE "idle"]
    /\ start \in MineBlocks
    /\ now = start.timestamp
    /\ loc = [t \in Threads |-> IF t = 1 THEN [Idle EXCEPT !.blk = start] ELSE Idle]
    /\ registry = NoRegistry

MineSpec == InitMine /\ [][mine_step(1)]_vars /\ WF_vars(mine_step(1))

---------------------------------------------------------------------------
(* Several ledgers constructed side by side: each BlockchainConnector()  *)
(* builds and mines its own genesis block, stamped with the clock value  *)
(* Block.__init__ reads when it runs.  pc[t] = "append" is the point     *)
(* where _create_genesis_block returns the mined block to __init__.      *)

InitTwin ==
    /\ lists = << <<>> >>
    /\ pending = 1
    /\ difficulty = Difficulty
    /\ now \in Times
    /\ chain = <<>>
    /\ ret = NoReturn
    /\ submitted = <<>>
    /\ sealedUpTo = 0
    /\ tampered = <<>>
    /\ pc = [t \in Threads |-> "genesis"]
    /\ loc = [t \in Threads |-> Idle]
    /\ start = Idle.blk
    /\ registry = NoRegistry

(* genesis_block = Block(0, "Genesis Block - ...", "0") *)
genesis_create(t) ==
    /\ pc[t] = "genesis"
    /\ \E ts \in {x \in Times : x >= now} :
        /\ now' = ts
        /\ loc' = [loc EXCEPT ![t].blk = Block(0, GenesisMarker, <<0>>, ts, lists)]
    /\ Goto(t, "mine")
    /\ UNCHANGED <<chain, lists, pending, difficulty, ret, submitted, sealedUpTo,
                   tampered, start, registry>>

NextTwin == \E t \in Threads : genesis_create(t) \/ mine_step(t)

TwinSpec == InitTwin /\ [][NextTwin]_vars

---------------------------------------------------------------------------
(* Blocks built directly from caller-made mappings.  Block(index, data,  *)
(* previous_hash) and add_block(data) take any data; a dict with the     *)
(* keys of a sealed batch can be built with its keys inserted in either  *)
(* order.  Two callers each build one block over the same record list    *)
(* and mine it.                                                          *)

KeyOrders == {<<"transactions", "count">>, <<"count", "transactions">>}

MappingPayload(keys, ref, n) ==
    [kind |-> "dict", str |-> 0, keys |-> keys, txs |-> ref, count |-> n]

RecordLists == {<<>>, <<1>>, <<1, 2>>, <<2, 1>>}

InitCanon ==
    /\ lists \in {<<l>> : l \in RecordLists}
    /\ pending = 1
    /\ difficulty = Difficulty
    /\ now \in Times
    /\ chain = <<>>
    /\ ret = NoReturn
    /\ submitted = <<>>
    /\ sealedUpTo = 0
    /\ tampered = <<>>
    /\ pc = [t \in Threads |-> IF t <= 2 THEN "block" ELSE "idle"]
    /\ loc = [t \in Threads |-> Idle]
    /\ start = Idle.blk
    /\ registry = NoRegistry

(* Block(1, {...}, "0") *)
block_create(t) ==
    /\ pc[t] = "block"
    /\ \E ts \in {x \in Times : x >= now}, keys \in KeyOrders :
        /\ now' = ts
        /\ loc' = [loc EXCEPT ![t].blk =
                      Block(1, MappingPayload(keys, 1, Len(lists[1])), <<0>>, ts, lists)]
    /\ Goto(t, "mine")
    /\ UNCHANGED <<chain, lists, pending, difficulty, ret, submitted, sealedUpTo,
                   tampered, start, registry>>

NextCanon == \E t \in Threads : block_create(t) \/ mine_step(t)

CanonSpec == InitCanon /\ [][NextCanon]_vars

---------------------------------------------------------------------------
(* Properties *)

Mined(b) == Prefix(b.hash, difficulty) = Zeros(difficulty)

DigestOk(b) == b.hash = calculate_hash(b, lists)

Linked(i) == chain[i].previous_hash = chain[i - 1].hash

IsBatch(b) == b.data.kind = "dict"

(* Records passed to add_transaction since the last block was sealed *)
SinceSeal == SubSeq(submitted, sealedUpTo + 1, Len(submitted))

(* C1. Link integrity: after any sequence of add_transaction,            *)
(* mine_pending_transactions and add_block calls, every block but the    *)
(* first holds as previous_hash the hash stored in the block before it.  *)
C1_LinkIntegrity == \A i \in 2..Len(chain) : Linked(i)

(* A sealed batch followed by a directly added block, whose predecessors *)
(* have different hashes.                                                *)
C1_Witness ==
    /\ Len(chain) >= 3
    /\ IsBatch(chain[2])
    /\ ~IsBatch(chain[3])
    /\ chain[2].hash # chain[1].hash
    /\ Linked(3)

(* C2. Tamper detection, as claimed: on a chain of two or more blocks,   *)
(* overwriting one committed field of any block but the last (the first  *)
(* block included) with a different value makes validate_chain return    *)
(* False.                                                                *)
C2_TamperDetected ==
    (/\ ret.op = "tamper"
     /\ Len(chain) >= 2
     /\ tampered[1].field \in CommittedFields
     /\ tampered[1].k < Len(chain))
    => ~validate_chain(chain, lists)

(* The same for every block but the first and the last: the model digest *)
(* separates every overwritten field there, so C2 fails at the first     *)
(* block only.                                                           *)
TamperDetectedPastGenesis ==
    (/\ ret.op = "tamper"
     /\ tampered[1].field \in CommittedFields
     /\ tampered[1].k >= 2)
    => ~validate_chain(chain, lists)

(* C3. Pool draining: a mine_pending_transactions call on a non-empty    *)
(* pool appends exactly one block, whose transactions are the records    *)
(* submitted since the pool was last empty, in order, with count equal   *)
(* to their number; the call returns that block, now the last one, and   *)
(* the pool is empty afterwards.                                         *)
C3_PoolDraining ==
    [][(ret'.op = "mine_pending_transactions" /\ lists[pending] # <<>>)
       => /\ Len(SinceSeal) >= 1
          /\ chain' = Append(chain, Last(chain'))
          /\ IsBatch(Last(chain'))
          /\ lists'[Last(chain').data.txs] = SinceSeal
          /\ Last(chain').data.count = Len(SinceSeal)
          /\ ~ret'.none
          /\ ret'.pos = Len(chain')
          /\ lists'[pending'] = <<>>]_vars

(* Two different records submitted, then sealed into the last block. *)
C3_Witness ==
    /\ ret.op = "mine_pending_transactions"
    /\ ~ret.none
    /\ ret.pos = Len(chain)
    /\ Last(chain).data.count = 2
    /\ lists[Last(chain).data.txs][1] # lists[Last(chain).data.txs][2]
    /\ lists[pending] = <<>>

RECURSIVE SealedRecords(_)
SealedRecords(ch) ==
    IF ch = <<>> THEN <<>>
    ELSE (IF IsBatch(Head(ch)) THEN lists[Head(ch).data.txs] ELSE <<>>)
         \o SealedRecords(Tail(ch))

(* C4. Atomic drain, as claimed: once a seal racing with submits has     *)
(* returned, the sealed transactions followed by the pool are the        *)
(* submitted records, each once, and every sealed block still has the    *)
(* count and the hash it was given over the records it holds.            *)
C4_AtomicDrain ==
    AllIdle =>
        /\ SealedRecords(chain) \o lists[pending] = submitted
        /\ \A i \in 1..Len(chain) :
              IsBatch(chain[i]) =>
                  /\ chain[i].data.count = Len(lists[chain[i].data.txs])
                  /\ DigestOk(chain[i])

(* C5. Serialized appends, as claimed: with concurrent callers of        *)
(* mine_pending_transactions and add_block no two blocks share an index  *)
(* or a previous_hash, and every block is linked to the one before it.   *)
C5_SerializedAppends ==
    /\ \A i, j \in 1..Len(chain) :
          i # j => /\ chain[i].index # chain[j].index
                   /\ chain[i].previous_hash # chain[j].previous_hash
    /\ \A i \in 2..Len(chain) : Linked(i)

(* C6. Difficulty target: every block of the chain, the first included,  *)
(* has a hash starting with difficulty zeros; no unmined block is in the *)
(* chain.                                                                *)
C6_DifficultyTarget == \A i \in 1..Len(chain) : Mined(chain[i])

(* A chain with a block whose mining had to move the nonce. *)
C6_Witness ==
    /\ Len(chain) >= 3
    /\ \E i \in 2..Len(chain) : chain[i].nonce > 0 /\ Mined(chain[i])

(* C7. validate_chain checks the four ledger invariants, as claimed:     *)
(* when it returns True the first block's previous_hash is "0", every    *)
(* block is linked, every block's hash (the first included) is the hash  *)
(* of its fields, and every hash meets the difficulty.                   *)
C7_ValidateChecksAll ==
    (ret.op = "validate_chain" /\ ret.bool)
    => /\ chain[1].previous_hash = <<0>>
       /\ \A i \in 2..Len(chain) : Linked(i)
       /\ \A i \in 1..Len(chain) : DigestOk(chain[i])
       /\ \A i \in 1..Len(chain) : Mined(chain[i])

(* C8. Digest integrity: without outside mutation every block of the     *)
(* chain stores the hash of its current fields, and validate_chain       *)
(* returns True.                                                         *)
C8_DigestIntegrity ==
    /\ \A i \in 1..Len(chain) : DigestOk(chain[i])
    /\ validate_chain(chain, lists)
    /\ (ret.op = "validate_chain" => ret.bool)

(* validate_chain was called on a chain holding a sealed batch, with the *)
(* pool refilled since.                                                  *)
C8_Witness ==
    /\ ret.op = "validate_chain"
    /\ ret.bool
    /\ Len(chain) >= 3
    /\ \E i \in 2..Len(chain) : IsBatch(chain[i]) /\ chain[i].nonce > 0
    /\ lists[pending] # <<>>

C10_EmptySealNoOp ==
    [][(ret'.op = "mine_pending_transactions" /\ lists[pending] = <<>>)
       => /\ ret'.none
          /\ chain' = chain
          /\ lists' = lists
          /\ pending' = pending
          /\ difficulty' = difficulty]_vars

(* An empty seal returned None after a block had been sealed. *)
C10_Witness ==
    /\ ret.op = "mine_pending_transactions"
    /\ ret.none
    /\ lists[pending] = <<>>
    /\ Len(chain) >= 2
    /\ IsBatch(Last(chain))

---------------------------------------------------------------------------
(* C11: right after construction the chain holds exactly one block and   *)
(* the pool is empty; in every reachable state the chain is non-empty,   *)
(* its first block has index 0, the marker payload, previous_hash "0"    *)
(* and a digest meeting the difficulty, no call replaces that block, and *)
(* get_latest_block returns the last element of the chain.               *)
IsGenesis(b) ==
    /\ b.index = 0
    /\ b.data = GenesisMarker
    /\ b.previous_hash = <<0>>
    /\ Mined(b)
    /\ DigestOk(b)

C11_Genesis ==
    /\ [](/\ Len(chain) >= 1
          /\ IsGenesis(chain[1])
          /\ ret.op = "init" => Len(chain) = 1 /\ lists[pending] = <<>>
          /\ ret.op = "get_latest_block" => ret.pos = Len(chain))
    /\ [][chain'[1] = chain[1]]_vars

C11_Witness ==
    /\ ret.op = "get_latest_block"
    /\ Len(chain) = MaxChain
    /\ chain[ret.pos] # chain[1]
    /\ IsGenesis(chain[1])

---------------------------------------------------------------------------
(* C12: under sequential calls the block at position i of the chain has  *)
(* index i (counting from 0), and a call that grows a chain of length L  *)
(* is an add_block or a mine_pending_transactions returning a block      *)
(* whose index is L.                                                     *)
Returned(r) == r.op \in {"add_block", "mine_pending_transactions"} /\ ~r.none

C12_IndexInvariant ==
    /\ [](\A i \in 1..Len(chain) : chain[i].index = i - 1)
    /\ [][chain' # chain => Returned(ret') /\ chain'[ret'.pos].index = Len(chain)]_vars

C12_Witness ==
    /\ Len(chain) = MaxChain
    /\ ret.op = "mine_pending_transactions"
    /\ ~ret.none
    /\ chain[ret.pos].index = MaxChain - 1
    /\ ~IsBatch(chain[2])

---------------------------------------------------------------------------
(* C13: every call (add_transaction, mine_pending_transactions,          *)
(* add_block, validate_chain, get_latest_block, get_chain_info) leaves   *)
(* the blocks already in the chain in place and unchanged; the chain     *)
(* grows by exactly one block on add_block and on                        *)
(* mine_pending_transactions with a non-empty pool, and not at all on    *)
(* any other call.                                                       *)
Grows ==
    \/ ret'.op = "add_block"
    \/ ret'.op = "mine_pending_transactions" /\ lists[pending] # <<>>

C13_AppendOnly ==
    [][/\ Len(chain') >= Len(chain)
       /\ SubSeq(chain', 1, Len(chain)) = chain
       /\ Len(chain') = Len(chain) + (IF Grows THEN 1 ELSE 0)]_vars

C13_Witness ==
    /\ Len(chain) = MaxChain
    /\ ret.op = "mine_pending_transactions"
    /\ ~ret.none
    /\ IsBatch(chain[2])
    /\ IsBatch(chain[MaxChain])

---------------------------------------------------------------------------
(* C14: add_transaction(record) returns True, makes the record the new   *)
(* last element of the pool, whose other elements stay as they were, and *)
(* leaves the chain and the difficulty unchanged.                        *)
C14_SubmitSucceeds ==
    [][ret'.op = "add_transaction" =>
        /\ ~ret'.none
        /\ ret'.bool
        /\ lists'[pending'] = Append(lists[pending], ret'.arg)
        /\ chain' = chain
        /\ difficulty' = difficulty]_vars

C14_Witness ==
    /\ ret.op = "add_transaction"
    /\ ret.bool
    /\ Len(lists[pending]) = MaxSubmits
    /\ lists[pending][MaxSubmits] = ret.arg
    /\ lists[pending][1] # ret.arg
    /\ Len(chain) >= 2

---------------------------------------------------------------------------
(* C15: add_block(data) on a chain of length L appends one block with    *)
(* index L, previous_hash equal to the hash of the former last block,    *)
(* the caller's data and a hash that is the block's digest and meets the *)
(* difficulty, returns that block, and leaves the pool exactly as it was.*)
C15_AppendRaw ==
    [][ret'.op = "add_block" =>
        /\ ~ret'.none
        /\ ret'.pos = Len(chain) + 1
        /\ Len(chain') = Len(chain) + 1
        /\ chain'[ret'.pos].index = Len(chain)
        /\ chain'[ret'.pos].previous_hash = chain[Len(chain)].hash
        /\ chain'[ret'.pos].data = RawPayload(ret'.arg)
        /\ chain'[ret'.pos].hash = calculate_hash(chain'[ret'.pos], lists')
        /\ Prefix(chain'[ret'.pos].hash, difficulty) = Zeros(difficulty)
        /\ pending' = pending
        /\ lists'[pending'] = lists[pending]]_vars

C15_Witness ==
    /\ ret.op = "add_block"
    /\ ~ret.none
    /\ Len(chain) = MaxChain
    /\ chain[ret.pos].data = RawPayload(ret.arg)
    /\ IsBatch(chain[ret.pos - 1])
    /\ lists[pending] # <<>>

---------------------------------------------------------------------------
(* C16: validate_chain and get_chain_info are read-only: a call of       *)
(* either, on an intact chain or on one with an overwritten block,       *)
(* changes no field of any block, nor the pool, nor the difficulty.      *)
C16_ReadOnly ==
    [][ret'.op \in {"validate_chain", "get_chain_info"} =>
        /\ chain' = chain
        /\ lists' = lists
        /\ pending' = pending
        /\ difficulty' = difficulty]_vars

(* both calls have returned on a chain that fails validation *)
C16_Witness ==
    /\ ret.op = "get_chain_info"
    /\ ~ret.info.valid
    /\ tampered # <<>>
    /\ \E i \in 2..Len(chain) : ~DigestOk(chain[i])
    /\ lists[pending] # <<>>

---------------------------------------------------------------------------
(* C17: get_chain_info returns the number of blocks of the chain, the    *)
(* result validate_chain gives in the same state, the difficulty, the    *)
(* number of records in the pool and the hash of the last block.         *)
C17_InfoSnapshot ==
    ret.op = "get_chain_info" =>
        /\ ret.info.length = Len(chain)
        /\ ret.info.valid = validate_chain(chain, lists)
        /\ ret.info.difficulty = difficulty
        /\ ret.info.pending_transactions = Len(lists[pending])
        /\ ret.info.latest_hash = chain[Len(chain)].hash

(* a snapshot of a full chain that no longer validates, one record pending *)
C17_Witness ==
    /\ ret.op = "get_chain_info"
    /\ ret.info.length = MaxChain
    /\ ret.info.valid = FALSE
    /\ ret.info.pending_transactions = 1
    /\ ret.info.latest_hash = chain[MaxChain].hash

---------------------------------------------------------------------------
(* C18: a negative difficulty is rejected before any mining: no search   *)
(* step is ever taken with a negative difficulty, so the block under     *)
(* mine_block keeps the nonce it had on entry.                           *)
C18_NegativeRejected == difficulty < 0 => loc[1].blk.nonce = start.nonce

---------------------------------------------------------------------------
(* C19: for every difficulty d with 0 <= d <= digest length,             *)
(* mine_block(d) eventually returns, and whenever it has returned the    *)
(* block's hash is its digest and starts with d zeros.                   *)
Returns == pc[1] = "append"

C19_MiningTerminates ==
    (difficulty \in 0..DigestLen) =>
        /\ <>Returns
        /\ [](Returns => Mined(loc[1].blk) /\ DigestOk(loc[1].blk))

(* a search at the full digest length that took more than one step *)
C19_Witness ==
    /\ Returns
    /\ difficulty = DigestLen
    /\ loc[1].blk.hash = Zeros(DigestLen)
    /\ loc[1].blk.nonce > start.nonce + 1

---------------------------------------------------------------------------
(* C20: mine_block(0) takes no search step: the block keeps the nonce it *)
(* had on entry (0 for a fresh block) and the hash computed at creation, *)
(* up to and after the return.                                           *)
C20_ZeroDifficulty == difficulty = 0 => loc[1].blk = start

(* returned at difficulty 0, on a block whose hash has no leading zero *)
C20_Witness ==
    /\ Returns
    /\ difficulty = 0
    /\ loc[1].blk = start
    /\ start.nonce = 0
    /\ start.hash[1] # 0

---------------------------------------------------------------------------
(* C21: the genesis blocks of any two ledgers constructed with the same  *)
(* difficulty both have hashes meeting the difficulty target, and have   *)
(* the same nonce and the same hash whenever their timestamps are equal. *)
Built(t) == pc[t] = "append"

C21_GenesisDeterminism ==
    \A t, u \in Threads :
        (Built(t) /\ Built(u)) =>
            /\ Mined(loc[t].blk)
            /\ Mined(loc[u].blk)
            /\ loc[t].blk.timestamp = loc[u].blk.timestamp =>
                    /\ loc[t].blk.nonce = loc[u].blk.nonce
                    /\ loc[t].blk.hash = loc[u].blk.hash

(* two ledgers built at the same clock value after a search of several   *)
(* steps each                                                            *)
C21_Witness ==
    /\ Built(1)
    /\ Built(2)
    /\ loc[1].blk.timestamp = loc[2].blk.timestamp
    /\ loc[1].blk.nonce > 1
    /\ loc[1].blk = loc[2].blk

---------------------------------------------------------------------------
(* C22: two blocks that agree on index, timestamp, previous_hash and     *)
(* nonce and whose data are the same mapping (same keys, same values,    *)
(* whatever the order the keys were inserted in) have the same hash.     *)
SameMapping(d, e) ==
    /\ d.kind = "dict"
    /\ e.kind = "dict"
    /\ {d.keys[i] : i \in 1..Len(d.keys)} = {e.keys[i] : i \in 1..Len(e.keys)}
    /\ lists[d.txs] = lists[e.txs]
    /\ d.count = e.count

HasBlock(t) == pc[t] \in {"mine", "append"}

C22_CanonicalPayload ==
    \A t, u \in Threads :
        (/\ HasBlock(t)
         /\ HasBlock(u)
         /\ loc[t].blk.index = loc[u].blk.index
         /\ loc[t].blk.timestamp = loc[u].blk.timestamp
         /\ loc[t].blk.previous_hash = loc[u].blk.previous_hash
         /\ loc[t].blk.nonce = loc[u].blk.nonce
         /\ SameMapping(loc[t].blk.data, loc[u].blk.data))
        => loc[t].blk.hash = loc[u].blk.hash

---------------------------------------------------------------------------
(* C23: immortalize_on_chain on an empty pool returns a result that is   *)
(* not immortalized and changes neither the chain, the pool, the         *)
(* difficulty nor the registry; on a non-empty pool it appends exactly   *)
(* one block and returns a receipt holding the index and the hash of the *)
(* new last block and the number of records that were pending, the      *)
(* registry staying as it was.                                           *)
C23_RegistryReceipt ==
    [][ret'.op = "immortalize_on_chain" =>
        /\ registry' = registry
        /\ difficulty' = difficulty
        /\ IF lists[pending] = <<>>
           THEN /\ ~ret'.receipt.immortalized
                /\ chain' = chain
                /\ lists' = lists
                /\ pending' = pending
           ELSE /\ ret'.receipt.immortalized
                /\ chain' = Append(chain, Last(chain'))
                /\ IsBatch(Last(chain'))
                /\ ret'.receipt.block_index = Last(chain').index
                /\ ret'.receipt.block_hash = Last(chain').hash
                /\ ret'.receipt.transactions = Len(lists[pending])]_vars

(* a receipt for two records, one minted and one submitted directly,    *)
(* sealed after a directly added block                                   *)
C23_Witness ==
    /\ ret.op = "immortalize_on_chain"
    /\ ret.receipt.immortalized
    /\ ret.receipt.transactions = 2
    /\ ret.receipt.block_index = 2
    /\ ret.receipt.block_hash = chain[3].hash
    /\ registry.total_minted = 1

---------------------------------------------------------------------------
(* C24: mine_block never changes index, timestamp, data or               *)
(* previous_hash, and when it returns the block's nonce is the smallest  *)
(* nonce, at or above the nonce on entry, for which the digest of the    *)
(* block's fields starts with `difficulty` zeros, and the stored hash is *)
(* the digest with that nonce.                                           *)
DigestWithNonce(n) == calculate_hash([start EXCEPT !.nonce = n], lists)

MeetsTarget(n) == Prefix(DigestWithNonce(n), difficulty) = Zeros(difficulty)

C24_SearchResult ==
    /\ loc[1].blk.index = start.index
    /\ loc[1].blk.timestamp = start.timestamp
    /\ loc[1].blk.data = start.data
    /\ loc[1].blk.previous_hash = start.previous_hash
    /\ Returns =>
          /\ loc[1].blk.nonce >= start.nonce
          /\ MeetsTarget(loc[1].blk.nonce)
          /\ \A n \in start.nonce..(loc[1].blk.nonce - 1) : ~MeetsTarget(n)
          /\ loc[1].blk.hash = DigestWithNonce(loc[1].blk.nonce)

(* a block mined before at a lower difficulty, mined again over several  *)
(* further nonces                                                        *)
C24_Witness ==
    /\ Returns
    /\ difficulty \in 2..DigestLen
    /\ start.nonce > 0
    /\ loc[1].blk.nonce > start.nonce + 2
    /\ MeetsTarget(loc[1].blk.nonce)

---------------------------------------------------------------------------
(* C25: under sequential calls the transactions of the sealed batches,   *)
(* in chain order, followed by the pool are exactly the records          *)
(* submitted so far, in submission order, each once; and the pool loses  *)
(* records only in a step that appends a batch block holding all of      *)
(* them.                                                                 *)
C25_RecordConservation ==
    /\ [](SealedRecords(chain) \o lists[pending] = submitted)
    /\ [][Len(lists'[pending']) < Len(lists[pending]) =>
            /\ chain' = Append(chain, Last(chain'))
            /\ IsBatch(Last(chain'))
            /\ lists'[Last(chain').data.txs] = lists[pending]]_vars

(* one record sealed, a block added directly, a second record pending *)
C25_Witness ==
    /\ Len(submitted) = 2
    /\ submitted[1] # submitted[2]
    /\ Len(chain) = 3
    /\ IsBatch(chain[2])
    /\ lists[chain[2].data.txs] = <<submitted[1]>>
    /\ ~IsBatch(chain[3])
    /\ lists[pending] = <<submitted[2]>>

=============================================================================
